---- MODULE Spec2Model ----
(***************************************************************************)
(* SpeechMonitor (src/speech_monitor.py): trigger-word detection, callback *)
(* dispatch, highlighted feedback and the monitor loop with its audio      *)
(* resources.                                                              *)
(*                                                                         *)
(* Python strings are sequences of one-character strings.  The iteration   *)
(* order of the set FORBIDDEN_WORDS is arbitrary but fixed for a given     *)
(* object, so the vocabulary is kept as a duplicate-free sequence: the set *)
(* in the order in which `for word in self.FORBIDDEN_WORDS` visits it.     *)
(***************************************************************************)
EXTENDS Integers, Sequences, FiniteSets, TLC

VARIABLES
    FORBIDDEN_WORDS,   \* the vocabulary, in its iteration order
    callbacks,         \* word -> callback, a function on the registered words
    detected_words,    \* self.detected_words
    audio_list,        \* self.audio_list (History)
    recognizer,        \* "None" | "set"
    stream,            \* "None" | "open" | "closed"
    mic,               \* "None" | "live" | "terminated"
    pc,                \* "Idle" (outside monitor_speech) | "Running" (in the read loop)
    mode,              \* the mode argument of the monitor_speech call in progress or last made
    current_line,      \* the local current_line of monitor_speech
    call,              \* what the last operation did (see NoCall, and each action)
    printed,           \* the line the last _info call printed
    res                \* counters of the audio resources' use (see Init)

vars == << FORBIDDEN_WORDS, callbacks, detected_words, audio_list, recognizer,
           stream, mic, pc, mode, current_line, call, printed, res >>

----------------------------------------------------------------------------
(* Bounds of the model *)

MaxLen == 3          \* longest text made of the alphabet's characters
MaxReads == 2        \* most audio chunks read in one monitor_speech call
MaxRuns == 2         \* most monitor_speech calls on one object

----------------------------------------------------------------------------
(* Strings *)

FullLit == <<"f", "u", "l", "l">>
PartialLit == <<"p", "a", "r", "t", "i", "a", "l">>
StrictLit == <<"s", "t", "r", "i", "c", "t">>

\* The characters texts are made of: two letters, an upper-case letter, the space.
Alphabet == {"a", "b", "A", " "}

SeqsUpTo(S, n) == UNION { [1..k -> S] : k \in 0..n }

Range(s) == { s[i] : i \in 1..Len(s) }

\* str.lower(), one character
LowerChar(c) == IF c = "A" THEN "a" ELSE c

\* str.lower()
lower(s) == [i \in 1..Len(s) |-> LowerChar(s[i])]

\* Python's `sub in s` on strings
Contains(sub, s) ==
    \E i \in 0..(Len(s) - Len(sub)) : SubSeq(s, i + 1, i + Len(sub)) = sub

\* str.isspace(), one character
IsSpace(c) == c = " "

\* str.split() with no argument: the maximal runs of non-whitespace characters
RECURSIVE SplitFrom(_, _, _, _)
SplitFrom(s, i, cur, acc) ==
    IF i > Len(s)
    THEN IF cur = <<>> THEN acc ELSE Append(acc, cur)
    ELSE IF IsSpace(s[i])
         THEN SplitFrom(s, i + 1, <<>>, IF cur = <<>> THEN acc ELSE Append(acc, cur))
         ELSE SplitFrom(s, i + 1, Append(cur, s[i]), acc)

split(s) == SplitFrom(s, 1, <<>>, <<>>)

\* sep.join(parts)
RECURSIVE join(_, _)
join(sep, parts) ==
    IF parts = <<>> THEN <<>>
    ELSE IF Len(parts) = 1 THEN parts[1]
    ELSE parts[1] \o sep \o join(sep, Tail(parts))

\* str.replace(old, new): the non-overlapping occurrences of old, left to right;
\* an empty old matches before every character and at the end.
RECURSIVE ReplaceFrom(_, _, _, _)
ReplaceFrom(s, i, old, new) ==
    IF old = <<>>
    THEN IF i > Len(s) THEN new
         ELSE new \o <<s[i]>> \o ReplaceFrom(s, i + 1, old, new)
    ELSE IF i + Len(old) - 1 > Len(s) THEN SubSeq(s, i, Len(s))
    ELSE IF SubSeq(s, i, i + Len(old) - 1) = old
         THEN new \o ReplaceFrom(s, i + Len(old), old, new)
         ELSE <<s[i]>> \o ReplaceFrom(s, i + 1, old, new)

replace(s, old, new) == ReplaceFrom(s, 1, old, new)

----------------------------------------------------------------------------
(* Inputs *)

\* The trigger words vocabularies are made of: the empty word, two one-letter
\* words, a two-token word, and the word that is the name of mode 'full'.
Words == { <<>>, <<"a">>, <<"b">>, <<"a", " ", "b">>, FullLit }

\* A word that is in no vocabulary.
Outsider == <<"b", "a">>

\* The vocabularies, each in an iteration order: no word, one word, or two
\* different words in either order.
Vocabularies ==
    {<<>>} \cup { <<w>> : w \in Words }
           \cup { p \in Words \X Words : p[1] # p[2] }

\* The texts: every string over the alphabet up to MaxLen, and the text "full".
Texts == SeqsUpTo(Alphabet, MaxLen) \cup {FullLit}

\* The callables a caller registers.
Callbacks == {"cb1", "cb2"}

ValidModes == {FullLit, PartialLit}
Modes == ValidModes \cup {StrictLit}

----------------------------------------------------------------------------
(* SpeechMonitor *)

WARNING_TEXT == <<"ESC[1;31m">>
RESET_TEXT == <<"ESC[0m">>

Vocabulary == Range(FORBIDDEN_WORDS)

NoCallbacks == [w \in {} |-> "cb1"]

NoCall == [op |-> "none"]

\* __init__
Init ==
    /\ FORBIDDEN_WORDS \in Vocabularies
    /\ callbacks = NoCallbacks
    /\ detected_words = {}
    /\ audio_list = <<>>
    /\ recognizer = "None"
    /\ stream = "None"
    /\ mic = "None"
    /\ pc = "Idle"
    /\ mode = <<>>
    /\ current_line = <<>>
    /\ call = NoCall
    /\ printed = <<>>
    /\ res = [ runs |-> 0,        \* monitor_speech calls made
               reads |-> 0,       \* chunks read in the last monitor_speech call
               cleanups |-> 0,    \* cleanup() calls in it
               closes |-> 0,      \* stream.close() calls in it
               terminates |-> 0,  \* mic.terminate() calls in it
               leaked |-> 0 ]     \* handles overwritten while still acquired

\* As Registered, the callback a word has already is kept
Registered_KeepFirst(cbs, word, cb) ==
    [w \in DOMAIN cbs \cup {word} |-> IF w \in DOMAIN cbs THEN cbs[w] ELSE cb]

\* self.callbacks[word] = callback
Registered(cbs, word, cb) ==
    [w \in DOMAIN cbs \cup {word} |-> IF w = word THEN cb ELSE cbs[w]]

\* register_callback(word, callback)
Register(word, cb) ==
    /\ pc = "Idle"
    /\ callbacks' = Registered(callbacks, word, cb)
    /\ UNCHANGED << FORBIDDEN_WORDS, detected_words, audio_list, recognizer,
                    stream, mic, pc, mode, current_line, call, printed, res >>

\* _execute_callbacks(word), on the record of the call in progress: the callback
\* found for the word is called, and raises when the word is among raisers.
ExecuteCallbacks(cbs, word, raisers, acc) ==
    IF word \in DOMAIN cbs
    THEN [acc EXCEPT !.calls = Append(@, <<word, cbs[word]>>),
                     !.raised = word \in raisers]
    ELSE acc

\* As MatchFull, the word not padded with spaces
MatchFull_Unpadded(word, line, m, detected) ==
    /\ Contains(word, line)
    /\ word # <<>>
    /\ m = FullLit /\ FullLit \notin detected

\* The condition of the first `if` of the loop (whole-word rule)
MatchFull(word, line, m, detected) ==
    /\ Contains(<<" ">> \o word \o <<" ">>, <<" ">> \o line \o <<" ">>)
    /\ word # <<>>
    /\ m = FullLit /\ FullLit \notin detected

\* As MatchPartial, the mode not looked at
MatchPartial_AnyMode(word, line, m, detected) ==
    /\ Contains(word, line)
    /\ word # <<>>

\* As MatchPartial, the empty word not excluded
MatchPartial_EmptyWord(word, line, m, detected) ==
    /\ Contains(word, line)
    /\ m = PartialLit /\ PartialLit \notin detected

\* The condition of the second `if` of the loop (substring rule)
MatchPartial(word, line, m, detected) ==
    /\ Contains(word, line)
    /\ word # <<>>
    /\ m = PartialLit /\ PartialLit \notin detected

\* One iteration of `for word in self.FORBIDDEN_WORDS`
Visit(word, line, m, detected, cbs, raisers, acc) ==
    LET a1 == IF MatchFull(word, line, m, detected)
              THEN ExecuteCallbacks(cbs, word, raisers,
                                    [acc EXCEPT !.nd = @ \cup {word}])
              ELSE acc
    IN  IF a1.raised THEN a1
        ELSE IF MatchPartial(word, line, m, detected)
             THEN ExecuteCallbacks(cbs, word, raisers,
                                   [a1 EXCEPT !.nd = @ \cup {word}])
             ELSE a1

\* The loop over the vocabulary from its k-th word on; a raising callback ends it
RECURSIVE ProcessLoop(_, _, _, _, _, _, _, _)
ProcessLoop(order, k, line, m, detected, cbs, raisers, acc) ==
    IF k > Len(order) \/ acc.raised THEN acc
    ELSE ProcessLoop(order, k + 1, line, m, detected, cbs, raisers,
                     Visit(order[k], line, m, detected, cbs, raisers, acc))

\* As ClearDetected, nothing cleared
ClearDetected_Kept(detected) == detected

\* self.detected_words.clear()
ClearDetected(detected) == {}

\* As ProcessResult, the tokens of the line merged into self.detected_words
ProcessResult_Tokens(line, d0, acc) ==
    [ line |-> line,
      new_detections |-> acc.nd,
      calls |-> acc.calls,
      raised |-> acc.raised,
      detected_words |-> IF ~acc.raised THEN d0 \cup Range(split(line)) ELSE d0 ]

\* The end of _process_partial_result_and_full_result: new_detections is merged
\* into self.detected_words unless a callback raised before
ProcessResult(line, d0, acc) ==
    [ line |-> line,
      new_detections |-> acc.nd,
      calls |-> acc.calls,
      raised |-> acc.raised,
      detected_words |-> IF ~acc.raised /\ acc.nd # {} THEN d0 \cup acc.nd ELSE d0 ]

\* _process_partial_result_and_full_result(text, mode): the line returned, the
\* local new_detections, the callbacks called in order, whether one raised, and
\* self.detected_words when the call ends.
Process(text, m, detected, order, cbs, raisers) ==
    ProcessResult(lower(text), ClearDetected(detected),
                  ProcessLoop(order, 1, lower(text), m, ClearDetected(detected), cbs,
                              raisers, [nd |-> {}, calls |-> <<>>, raised |-> FALSE]))

\* As InfoToken, a token wrapped in mode 'full' as soon as it contains the word
RECURSIVE InfoToken_Containing(_, _, _, _)
InfoToken_Containing(order, k, word, m) ==
    IF k > Len(order) THEN word
    ELSE IF Contains(order[k], lower(word))
         THEN IF m = FullLit
              THEN WARNING_TEXT \o word \o RESET_TEXT
              ELSE IF m = PartialLit
                   THEN replace(word, order[k],
                                WARNING_TEXT \o order[k] \o RESET_TEXT)
                   ELSE InfoToken_Containing(order, k + 1, word, m)
         ELSE InfoToken_Containing(order, k + 1, word, m)

\* _info: one token against the vocabulary from its k-th word on
RECURSIVE InfoToken(_, _, _, _)
InfoToken(order, k, word, m) ==
    IF k > Len(order) THEN word
    ELSE LET forbidden == order[k]
             lower_word == lower(word)
         IN  IF Contains(forbidden, lower_word)
             THEN IF lower_word = lower(forbidden) /\ m = FullLit
                  THEN WARNING_TEXT \o word \o RESET_TEXT
                  ELSE IF m = PartialLit
                       THEN replace(word, forbidden,
                                    WARNING_TEXT \o forbidden \o RESET_TEXT)
                       ELSE InfoToken(order, k + 1, word, m)
             ELSE InfoToken(order, k + 1, word, m)

\* _info(current_sentence, mode): the line it prints
Info(order, sentence, m) ==
    LET words == split(sentence)
    IN  join(<<" ">>, [i \in 1..Len(words) |-> InfoToken(order, 1, words[i], m)])

----------------------------------------------------------------------------
(* The matcher and dispatcher called on their own *)

\* The word whose callback raises in a call, or no word.  A call ends at the
\* first callback that raises, so one word is as general as a set of them.
NoRaise == <<"-">>

\* A call of _process_partial_result_and_full_result(text, m) in which the
\* callback of the word raiser, if it is called, raises.
CallProcess(text, m, raiser) ==
    \E r \in {Process(text, m, detected_words, FORBIDDEN_WORDS, callbacks, {raiser})} :
        /\ pc = "Idle"
        /\ detected_words' = r.detected_words
        /\ call' = [ op |-> "process", text |-> text, mode |-> m,
                     new_detections |-> r.new_detections, calls |-> r.calls,
                     raised |-> r.raised, line |-> r.line,
                     \* the call before was of this text and mode, and returned
                     repeat |-> /\ call.op = "process"
                                /\ call.text = text /\ call.mode = m
                                /\ ~call.raised ]
        /\ UNCHANGED << FORBIDDEN_WORDS, callbacks, audio_list, recognizer, stream,
                        mic, pc, mode, current_line, printed, res >>

\* The words a caller registers callbacks for
RegWords == Vocabulary \cup {Outsider}

\* The texts handed to a function called on its own: any text, and after a call
\* the same text again
NextTexts == IF call.op = "none" THEN Texts ELSE {call.text}

NextMatch ==
    \/ \E word \in RegWords : call.op = "none" /\ Register(word, "cb1")
    \/ \E text \in NextTexts, m \in ValidModes,
          raiser \in (Vocabulary \cap DOMAIN callbacks) \cup {NoRaise} :
            CallProcess(text, m, raiser)

SpecMatch == Init /\ [][NextMatch]_vars

\* register_callback(word, cb) called on its own: the request and the callback
\* the word had before are kept on record
RegisterCall(word, cb) ==
    /\ pc = "Idle"
    /\ callbacks' = Registered(callbacks, word, cb)
    /\ call' = [ op |-> "register", word |-> word, cb |-> cb,
                 replaced |-> IF word \in DOMAIN callbacks THEN callbacks[word]
                              ELSE "None" ]
    /\ UNCHANGED << FORBIDDEN_WORDS, detected_words, audio_list, recognizer,
                    stream, mic, pc, mode, current_line, printed, res >>

\* The texts processed between registrations: any text after a registration,
\* and after a call the same text again
RegistryTexts == IF call.op = "process" THEN {call.text} ELSE Texts

NextRegistry ==
    \/ \E word \in RegWords, cb \in Callbacks : RegisterCall(word, cb)
    \/ \E text \in RegistryTexts, m \in ValidModes : CallProcess(text, m, NoRaise)

\* The monitors of at most one trigger word
RegistryInit == Init /\ Len(FORBIDDEN_WORDS) <= 1

\* Registrations and calls in any order
SpecRegistry == RegistryInit /\ [][NextRegistry]_vars

\* A call of _info(sentence, m)
CallInfo(sentence, m) ==
    /\ pc = "Idle"
    /\ printed' = Info(FORBIDDEN_WORDS, sentence, m)
    /\ call' = [ op |-> "info", text |-> sentence, mode |-> m ]
    /\ UNCHANGED << FORBIDDEN_WORDS, callbacks, detected_words, audio_list,
                    recognizer, stream, mic, pc, mode, current_line, res >>

NextInfo == \E sentence \in NextTexts, m \in ValidModes : CallInfo(sentence, m)

SpecInfo == Init /\ [][NextInfo]_vars

----------------------------------------------------------------------------
(* monitor_speech *)

\* What initialize_audio_stream can do: succeed, or raise at Model/KaldiRecognizer,
\* at pyaudio.PyAudio(), or at mic.open().
InitOutcomes == {"ok", "model_error", "pyaudio_error", "open_error"}

\* As InitializeAudioStream, the except clause not raising the error again
InitializeAudioStream_Swallowed(outcome) ==
    [ recognizer |-> IF outcome = "model_error" THEN recognizer ELSE "set",
      mic |-> IF outcome \in {"ok", "open_error"} THEN "live" ELSE mic,
      stream |-> IF outcome = "ok" THEN "open" ELSE stream,
      leaked |-> (IF outcome \in {"ok", "open_error"} /\ mic = "live" THEN 1 ELSE 0)
                 + (IF outcome = "ok" /\ stream = "open" THEN 1 ELSE 0),
      raised |-> FALSE ]

\* initialize_audio_stream: the fields it has assigned when it returns or raises
InitializeAudioStream(outcome) ==
    [ recognizer |-> IF outcome = "model_error" THEN recognizer ELSE "set",
      mic |-> IF outcome \in {"ok", "open_error"} THEN "live" ELSE mic,
      stream |-> IF outcome = "ok" THEN "open" ELSE stream,
      leaked |-> (IF outcome \in {"ok", "open_error"} /\ mic = "live" THEN 1 ELSE 0)
                 + (IF outcome = "ok" /\ stream = "open" THEN 1 ELSE 0),
      raised |-> outcome # "ok" ]

\* all([self.recognizer, self.stream, self.mic]): a closed stream and a
\* terminated handle are objects still, and true
AllAcquired == recognizer # "None" /\ stream # "None" /\ mic # "None"

\* What the audio library does when asked to release what is released already
LibOutcomes == {"raises", "tolerates"}

\* As Cleanup, the PyAudio handle not terminated
Cleanup_StreamOnly(st, mc, lib) ==
    [ stream |-> IF st = "open" THEN "closed" ELSE st,
      closes |-> IF st # "None" /\ ~(st = "closed" /\ lib = "raises") THEN 1 ELSE 0,
      mic |-> mc,
      terminates |-> 0,
      raised |-> st = "closed" /\ lib = "raises" ]

\* cleanup(): the resources after it, the release calls it made, whether it raised
Cleanup(st, mc, lib) ==
    LET stream_raises == st = "closed" /\ lib = "raises"
        mic_reached == ~stream_raises
        mic_raises == mic_reached /\ mc = "terminated" /\ lib = "raises"
    IN  [ stream |-> IF st = "open" THEN "closed" ELSE st,
          closes |-> IF st # "None" /\ ~stream_raises THEN 1 ELSE 0,
          mic |-> IF mic_reached /\ mc = "live" THEN "terminated" ELSE mc,
          terminates |-> IF mic_reached /\ mc # "None" /\ ~mic_raises THEN 1 ELSE 0,
          raised |-> stream_raises \/ mic_raises ]

\* As ValidMode, every mode accepted
ValidMode_Any(m) == TRUE

\* `mode not in ("full", "partial")` is false
ValidMode(m) == m \in {FullLit, PartialLit}

\* monitor_speech(m) up to the read loop: initialization when something is not
\* acquired, then the validation of the mode
MonitorStart(m, outcome) ==
    LET needs_init == ~AllAcquired
        i == IF needs_init THEN InitializeAudioStream(outcome)
             ELSE [ recognizer |-> recognizer, mic |-> mic, stream |-> stream,
                    leaked |-> 0, raised |-> FALSE ]
        result == IF i.raised THEN "init_error"
                  ELSE IF ~ValidMode(m) THEN "invalid_mode"
                  ELSE "running"
    IN  /\ pc = "Idle"
        /\ res.runs < MaxRuns
        /\ needs_init \/ outcome = "ok"
        /\ recognizer' = i.recognizer
        /\ mic' = i.mic
        /\ stream' = i.stream
        /\ mode' = m
        /\ pc' = IF result = "running" THEN "Running" ELSE "Idle"
        /\ current_line' = IF result = "running" THEN <<>> ELSE current_line
        /\ res' = [ runs |-> res.runs + 1, reads |-> 0, cleanups |-> 0, closes |-> 0,
                    terminates |-> 0, leaked |-> res.leaked + i.leaked ]
        /\ call' = [ op |-> "start", mode |-> m, initialized |-> needs_init,
                     result |-> result ]
        /\ UNCHANGED << FORBIDDEN_WORDS, callbacks, detected_words, audio_list, printed >>

\* Leaving the read loop, chunks being those read in the iteration that ends:
\* the except clauses and `finally: self.cleanup()`
Leave(lib, chunks) ==
    \E c \in { Cleanup(stream, mic, lib) } :
        /\ pc' = "Idle"
        /\ stream' = c.stream
        /\ mic' = c.mic
        /\ res' = [res EXCEPT !.reads = @ + chunks, !.cleanups = @ + 1,
                              !.closes = @ + c.closes,
                              !.terminates = @ + c.terminates]

\* One iteration in which the chunk is read and AcceptWaveform(data) is false
LoopRead ==
    /\ pc = "Running"
    /\ stream = "open"
    /\ res.reads < MaxReads
    /\ res' = [res EXCEPT !.reads = @ + 1]
    /\ call' = [ op |-> "read" ]
    /\ UNCHANGED << FORBIDDEN_WORDS, callbacks, detected_words, audio_list, recognizer,
                    stream, mic, pc, mode, current_line, printed >>

\* A result of the recognizer with no "text" field
NoText == <<"no text">>

\* The texts the recognizer finalizes: the empty text and the one-character texts
Utterances == {<<>>} \cup { <<c>> : c \in Alphabet }

Results == Utterances \cup {NoText}

\* The body of `if self.recognizer.AcceptWaveform(data)` up to the append: the
\* result is processed when it has a text, under 'full' and under 'partial'
MonitorProcess(result, m, line, detected, order, cbs, raisers) ==
    LET skip == [ line |-> line, new_detections |-> {}, calls |-> <<>>,
                  raised |-> FALSE, detected_words |-> detected ]
        r1 == IF Contains(m, FullLit)
              THEN Process(result, m, detected, order, cbs, raisers)
              ELSE skip
    IN  IF result = NoText THEN skip
        ELSE IF ~r1.raised /\ Contains(m, PartialLit)
             THEN [ Process(result, m, r1.detected_words, order, cbs, raisers)
                    EXCEPT !.calls = r1.calls \o @ ]
             ELSE r1

\* As AppendLine, the line inserted at the front
AppendLine_Front(list, line) == <<line>> \o list

\* self.audio_list.append(current_line)
AppendLine(list, line) == Append(list, line)

\* One iteration in which AcceptWaveform(data) is true and Result() is result;
\* the callback of the word raiser, if it is called, raises.
LoopUtterance(result, raiser, lib) ==
    \E r \in { MonitorProcess(result, mode, current_line, detected_words,
                               FORBIDDEN_WORDS, callbacks, {raiser}) } :
        /\ pc = "Running"
        /\ stream = "open"
        /\ res.reads < MaxReads
        /\ detected_words' = r.detected_words
        /\ call' = [ op |-> "utterance", has_text |-> result # NoText,
                     text |-> result, mode |-> mode,
                     new_detections |-> r.new_detections, calls |-> r.calls,
                     raised |-> r.raised, line |-> r.line ]
        /\ IF r.raised
           THEN /\ Leave(lib, 1)
                /\ UNCHANGED << audio_list, current_line, printed >>
           ELSE /\ current_line' = r.line
                /\ audio_list' = AppendLine(audio_list, r.line)
                /\ printed' = Info(FORBIDDEN_WORDS, r.line, mode)
                /\ res' = [res EXCEPT !.reads = @ + 1]
                /\ UNCHANGED << stream, mic, pc >>
        /\ UNCHANGED << FORBIDDEN_WORDS, callbacks, recognizer, mode >>

\* Why the read loop ends other than by a callback
StopCauses == {"KeyboardInterrupt", "ReadError"}

\* The loop ends: Ctrl+C, or stream.read raises (it always does on a closed stream)
LoopStop(cause, lib) ==
    /\ pc = "Running"
    /\ Leave(lib, 0)
    /\ call' = [ op |-> "stop", cause |-> cause,
                 cleanup_raised |-> Cleanup(stream, mic, lib).raised ]
    /\ UNCHANGED << FORBIDDEN_WORDS, callbacks, detected_words, audio_list, recognizer,
                    mode, current_line, printed >>

\* As Copy, the list itself returned
Copy_SameList(list) == [ value |-> list, shared |-> TRUE ]

\* list.copy(): a new list object of the same entries
Copy(list) == [ value |-> list, shared |-> FALSE ]

\* output_audio(), called between two runs
OutputAudio ==
    \E r \in { Copy(audio_list) } :
        /\ pc = "Idle"
        /\ call' = [ op |-> "output_audio", returned |-> r.value, shared |-> r.shared ]
        /\ UNCHANGED << FORBIDDEN_WORDS, callbacks, detected_words, audio_list,
                        recognizer, stream, mic, pc, mode, current_line, printed, res >>

\* An entry the loop never appends: its lines are lower-cased
CallerEntry == <<"A">>

\* What the caller makes of a list it holds: an entry appended, or the list cleared
Mutations(list) == { Append(list, CallerEntry), <<>> } \ {list}

\* The caller changes the list output_audio returned; the monitor's list
\* changes with it when it is the same object
CallerMutates(list) ==
    /\ call.op = "output_audio"
    /\ call' = [ op |-> "mutated", returned |-> list, shared |-> call.shared ]
    /\ audio_list' = IF call.shared THEN list ELSE audio_list
    /\ UNCHANGED << FORBIDDEN_WORDS, callbacks, detected_words, recognizer, stream,
                    mic, pc, mode, current_line, printed, res >>

Next ==
    \/ \E word \in Vocabulary, cb \in Callbacks : res.runs = 0 /\ Register(word, cb)
    \/ OutputAudio
    \/ call.op = "output_audio" /\ \E list \in Mutations(call.returned) : CallerMutates(list)
    \/ \E m \in Modes, outcome \in InitOutcomes : MonitorStart(m, outcome)
    \/ LoopRead
    \/ \E result \in Results, lib \in LibOutcomes,
          raiser \in (Vocabulary \cap DOMAIN callbacks) \cup {NoRaise} :
            LoopUtterance(result, raiser, lib)
    \/ \E cause \in StopCauses, lib \in LibOutcomes : LoopStop(cause, lib)

\* The monitors the loop is run on: those of at most one trigger word
MonitorInit == Init /\ Len(FORBIDDEN_WORDS) <= 1

Spec == MonitorInit /\ [][Next]_vars

----------------------------------------------------------------------------
(* Properties *)

Pad(w) == <<" ">> \o w \o <<" ">>

\* The detection rule of a mode as the specification words it: the non-empty
\* vocabulary words found space-delimited (mode 'full') or as a substring
\* (mode 'partial') in the lower-cased text.
DetectedRule(text, m) ==
    { w \in Vocabulary :
        /\ w # <<>>
        /\ \/ m = FullLit /\ Contains(Pad(w), Pad(lower(text)))
           \/ m = PartialLit /\ Contains(w, lower(text)) }

\* How many times the last call invoked the callback of word w
CallsFor(w) == Cardinality({ i \in 1..Len(call.calls) : call.calls[i][1] = w })

AllWords == Words \cup {Outsider}

\* C1: in a call of _process_partial_result_and_full_result under 'full' or
\* 'partial', the callback registered for a word is invoked exactly once if the
\* call detected the word, however often the word occurs in the text, and not at
\* all otherwise; the callback invoked is the one registered for the word; and a
\* call that returns leaves the words it detected in detected_words.
C1_OncePerUtterance ==
    call.op = "process" =>
        /\ \A w \in AllWords :
              CallsFor(w) = IF w \in call.new_detections /\ w \in DOMAIN callbacks
                            THEN 1 ELSE 0
        /\ \A i \in 1..Len(call.calls) :
              /\ call.calls[i][1] \in DOMAIN callbacks
              /\ call.calls[i][2] = callbacks[call.calls[i][1]]
        /\ ~call.raised => detected_words = call.new_detections

\* C1, its case: the word "a" occurs twice in the text, has a callback, is
\* detected, and its callback was invoked once.
C1_Witness ==
    /\ call.op = "process"
    /\ call.text = <<"a", " ", "a">>
    /\ <<"a">> \in call.new_detections
    /\ <<"a">> \in DOMAIN callbacks
    /\ CallsFor(<<"a">>) = 1

\* C2 (the claim as stated): when two words with callbacks both satisfy the
\* detection rule for an utterance and the callback of one raises, the callback
\* of the other is invoked in that call all the same.
C2_DispatchIsolation ==
    (call.op = "process" /\ call.raised) =>
        \A w \in DetectedRule(call.text, call.mode) \cap DOMAIN callbacks :
            CallsFor(w) >= 1

\* C3 (the claim as stated): a step of the read loop in which a callback raises
\* leaves the monitor in the read loop.
C3_StaysRunning ==
    [][ (pc = "Running" /\ call'.op = "utterance" /\ call'.raised)
            => pc' = "Running" ]_vars

\* C4: every step that leaves the read loop (Ctrl+C, a read error, an error
\* while an utterance is processed) calls cleanup() once, and that is the only
\* cleanup() call of the run; a stream that was open is closed by one close()
\* call and a PyAudio handle that was live is terminated by one terminate() call.
C4_CleanupOnEveryExit ==
    [][ (pc = "Running" /\ pc' # "Running") =>
            /\ res.cleanups = 0 /\ res'.cleanups = 1
            /\ stream = "open" => (stream' = "closed" /\ res'.closes = 1)
            /\ mic = "live" => (mic' = "terminated" /\ res'.terminates = 1) ]_vars

\* C4, its case: the loop was left because a callback raised, and the open
\* stream and the live handle were released, once each.
C4_Witness ==
    /\ call.op = "utterance" /\ call.raised
    /\ pc = "Idle"
    /\ stream = "closed" /\ mic = "terminated"
    /\ res.cleanups = 1 /\ res.closes = 1 /\ res.terminates = 1

\* C5: when a text is processed again right after a call that processed the
\* same text under the same mode and returned, and this call returns too, it
\* detects the same words, invokes the same callbacks again and leaves the same
\* detected_words: what the earlier call detected suppresses nothing.
C5_PerUtteranceReset ==
    [][ ( /\ call.op = "process" /\ ~call.raised
          /\ call'.op = "process" /\ ~call'.raised
          /\ call'.text = call.text /\ call'.mode = call.mode )
        => /\ call'.new_detections = call.new_detections
           /\ call'.calls = call.calls
           /\ detected_words' = detected_words ]_vars

\* C5, its case: the second of two calls on the same text, which detected a word
\* and invoked its callback again.
C5_Witness ==
    /\ call.op = "process" /\ call.repeat /\ ~call.raised
    /\ call.new_detections # {}
    /\ call.new_detections = detected_words
    /\ call.calls # <<>>

\* C6: a monitor_speech call with a mode other than 'full' and 'partial' ends
\* with an error without entering the read loop: History is as before, and no
\* chunk is read in that call.
C6_InvalidModeRejected ==
    [][ (call'.op = "start" /\ res'.runs = res.runs + 1 /\ mode' \notin ValidModes)
        => /\ call'.result \in {"invalid_mode", "init_error"}
           /\ pc' = "Idle"
           /\ audio_list' = audio_list
           /\ detected_words' = detected_words
           /\ res'.reads = 0 ]_vars

\* C6, its case: the last call had an invalid mode and was rejected for it, with
\* the resources acquired and nothing read.
C6_Witness ==
    /\ call.op = "start" /\ call.result = "invalid_mode"
    /\ mode = StrictLit
    /\ pc = "Idle" /\ res.reads = 0 /\ audio_list = <<>>
    /\ stream = "open"

\* C7: a call that returns has detected exactly the words of the rule of its
\* mode, and a call that a callback cut short has detected only such words.
C7_DetectionRule ==
    call.op = "process" =>
        /\ call.new_detections \subseteq DetectedRule(call.text, call.mode)
        /\ ~call.raised =>
              /\ call.new_detections = DetectedRule(call.text, call.mode)
              /\ detected_words = DetectedRule(call.text, call.mode)

\* C7, its case: under 'full' the word "a" of the vocabulary is not detected in
\* the text "ab", which contains it.
C7_Witness ==
    /\ call.op = "process" /\ call.mode = FullLit /\ ~call.raised
    /\ call.text = <<"a", "b">>
    /\ <<"a">> \in Vocabulary
    /\ detected_words = {}

\* C8 (the claim as stated): the entry an iteration appends to History for a
\* completed unit is the lower-cased text of that unit, the empty line when the
\* result has no text.
C8_EntryFromThisUnit ==
    [][ (call'.op = "utterance" /\ ~call'.raised) =>
            audio_list' = Append(audio_list,
                                 IF call'.has_text THEN lower(call'.text) ELSE <<>>)
      ]_vars

\* C9: the empty word is never detected and its callback never invoked, under
\* either mode and for every text; the empty text detects nothing.
C9_EmptyNeverMatches ==
    call.op = "process" =>
        /\ <<>> \notin call.new_detections
        /\ <<>> \notin detected_words
        /\ CallsFor(<<>>) = 0
        /\ call.text = <<>> => (call.new_detections = {} /\ call.calls = <<>>)

\* C9, its case: the empty word is in the vocabulary with a callback, and a
\* non-empty text was processed under 'partial'.
C9_Witness ==
    /\ call.op = "process" /\ call.mode = PartialLit
    /\ <<>> \in Vocabulary /\ <<>> \in DOMAIN callbacks
    /\ call.text = <<"a">>
    /\ call.calls = <<>>

\* A trigger word of one token: not empty, no whitespace in it
SingleToken(w) == split(w) = <<w>>

\* The line _info is to print under 'full': every token equal, letter case
\* apart, to a vocabulary word between the markers, the others as they are, in
\* their order, one space between them
FullLine(sentence) ==
    LET words == split(sentence)
    IN  join(<<" ">>,
             [ i \in 1..Len(words) |->
                 IF \E w \in Vocabulary : lower(words[i]) = lower(w)
                 THEN WARNING_TEXT \o words[i] \o RESET_TEXT
                 ELSE words[i] ])

\* C10: under 'full', _info prints the sentence with exactly the tokens equal
\* (letter case apart) to a vocabulary word wrapped in the markers, the other
\* tokens unmodified, order and single spaces kept; the wrapped tokens are the
\* single-token words the detection rule of 'full' finds in the sentence.
C10_FullHighlight ==
    (call.op = "info" /\ call.mode = FullLit) =>
        /\ printed = FullLine(call.text)
        /\ { lower(t) : t \in { u \in Range(split(call.text)) :
                                   \E w \in Vocabulary : lower(u) = lower(w) } }
             = { w \in DetectedRule(call.text, FullLit) : SingleToken(w) }

\* C10, its case: of the two tokens of "A b" the first is a vocabulary word,
\* upper-case in the sentence, and is wrapped; the second is not and is left.
C10_Witness ==
    /\ call.op = "info" /\ call.mode = FullLit
    /\ call.text = <<"A", " ", "b">>
    /\ <<"a">> \in Vocabulary /\ <<"b">> \notin Vocabulary
    /\ printed = WARNING_TEXT \o <<"A">> \o RESET_TEXT \o <<" ", "b">>

\* C11 (the claim as stated): when no vocabulary word matches the sentence under
\* the mode in force, _info prints the sentence with its whitespace normalized
\* to single spaces and no marker in it.
C11_NoMatchUnchanged ==
    (call.op = "info" /\ DetectedRule(call.text, call.mode) = {}) =>
        /\ printed = join(<<" ">>, split(call.text))
        /\ ~Contains(WARNING_TEXT, printed)
        /\ ~Contains(RESET_TEXT, printed)

\* The vocabulary order with every occurrence of the empty word taken out.
WithoutEmpty(order) == SelectSeq(order, LAMBDA w : w # <<>>)

\* C17 (the claim as stated): an empty trigger word never changes the printed
\* line: _info prints what it would print with the empty word taken out of the
\* vocabulary, in both modes.
C17_EmptyWordInert ==
    call.op = "info" =>
        printed = Info(WithoutEmpty(FORBIDDEN_WORDS), call.text, call.mode)

\* word wrapped by the two markers, as _info writes it into a token.
Highlighted(word) == WARNING_TEXT \o word \o RESET_TEXT

\* C20 (the claim as stated): in 'partial' mode every trigger word detected in
\* the lower-cased utterance has at least one occurrence wrapped by the markers
\* in the printed line, also when two detected words share a token.
C20_EveryDetectedHighlighted ==
    (call.op = "info" /\ call.mode = PartialLit /\ call.text = lower(call.text)) =>
        \A w \in DetectedRule(call.text, PartialLit) :
            Contains(Highlighted(w), printed)

\* C12: a call of monitor_speech whose initialization ran and left the model,
\* the PyAudio handle or the stream unacquired ends with the initialization
\* error: the monitor is not running after it, no chunk was read, and History,
\* the detected words and the current line are what they were.
C12_InitFailureNeverRuns ==
    [][ ( /\ call'.op = "start"
          /\ res'.runs = res.runs + 1
          /\ call'.initialized
          /\ ~AllAcquired' )
        => ( /\ call'.result = "init_error"
             /\ pc' = "Idle"
             /\ res'.reads = 0
             /\ audio_list' = audio_list
             /\ detected_words' = detected_words
             /\ current_line' = current_line ) ]_vars

C12_Witness ==
    /\ call.op = "start"
    /\ call.result = "init_error"
    /\ call.mode \in ValidModes
    /\ mic = "live"
    /\ stream = "None"
    /\ pc = "Idle"

\* C13: History is append-only and in the order of finalization: every step
\* leaves History as it was or is a loop iteration that returned from its
\* dispatch and put exactly one entry, the line of that iteration, behind the
\* entries already there.
C13_HistoryAppendOnly ==
    [][ \/ audio_list' = audio_list
        \/ /\ call'.op = "utterance"
           /\ ~call'.raised
           /\ Len(audio_list') = Len(audio_list) + 1
           /\ SubSeq(audio_list', 1, Len(audio_list)) = audio_list
           /\ audio_list'[Len(audio_list')] = call'.line
           /\ call'.has_text => call'.line = lower(call'.text) ]_vars

C13_Witness ==
    /\ call.op = "utterance"
    /\ Len(audio_list) = 2
    /\ audio_list[1] # audio_list[2]
    /\ audio_list[2] = call.line

\* C14: output_audio returns a copy: a caller changing the returned list leaves
\* History as it is, and every call of output_audio, also one after such a
\* change, returns History entry for entry.
C14_ReturnedCopy ==
    [][ /\ call'.op = "mutated" => audio_list' = audio_list
        /\ (call'.op = "output_audio" /\ call.op = "mutated") =>
               /\ call'.returned = audio_list
               /\ \A i \in 1..Len(call'.returned) : call'.returned[i] # CallerEntry ]_vars

C14_Witness ==
    /\ call.op = "mutated"
    /\ Len(audio_list) = 2
    /\ call.returned = Append(audio_list, CallerEntry)

\* C15: in every reachable state every member of self.detected_words is a word
\* of the vocabulary.
C15_DetectedWithinVocabulary == detected_words \subseteq Vocabulary

C15_Witness ==
    /\ call.op = "process"
    /\ call.repeat
    /\ detected_words # {}
    /\ detected_words # Vocabulary
    /\ Outsider \in DOMAIN callbacks
    /\ Contains(Outsider, lower(call.text))

\* C16: register_callback takes any word and sets the callback of that word
\* only, in place of the one the word had; a call of the matcher invokes
\* callbacks of vocabulary words only, each the one registered last, so a
\* callback of a word outside the vocabulary is never invoked and a replaced
\* callback is not invoked again.
C16_RegistryLatestOnly ==
    [][ /\ call'.op = "register" =>
              /\ DOMAIN callbacks' = DOMAIN callbacks \cup {call'.word}
              /\ callbacks'[call'.word] = call'.cb
              /\ \A w \in DOMAIN callbacks \ {call'.word} : callbacks'[w] = callbacks[w]
              /\ detected_words' = detected_words
        /\ call'.op = "process" =>
              /\ \A i \in 1..Len(call'.calls) :
                    /\ call'.calls[i][1] \in Vocabulary
                    /\ call'.calls[i][2] = callbacks[call'.calls[i][1]]
              /\ (call.op = "register" /\ call.word \in call'.new_detections) =>
                    call'.calls = << <<call.word, call.cb>> >> ]_vars

C16_Witness ==
    /\ call.op = "register"
    /\ call.word \in detected_words
    /\ call.replaced = "cb1"
    /\ callbacks[call.word] = "cb2"
    /\ Outsider \in DOMAIN callbacks

\* C18 (the claim as stated): once a call of monitor_speech has returned or
\* raised, no stream is left open, no PyAudio handle is left live, and no handle
\* or stream was dropped unreleased.
C18_NothingLeftAcquired ==
    (pc = "Idle" /\ res.runs > 0) =>
        /\ stream # "open"
        /\ mic # "live"
        /\ res.leaked = 0

\* C19 (the claim as stated): over the calls of monitor_speech on one monitor,
\* the read loop runs on an open stream of a live handle only, and close and
\* terminate are called on what is still open or live only.
C19_FreshResourcesEachRun ==
    [][ /\ pc' = "Running" => (stream' = "open" /\ mic' = "live")
        /\ res'.closes > res.closes => stream = "open"
        /\ res'.terminates > res.terminates => mic = "live" ]_vars

====
